---- MODULE Spec2Model ----
(***************************************************************************)
(* The admin plugin's store (plugin/admin/store.go): two quickLists, the   *)
(* client list and the subscription list, each behind its own mutex, and   *)
(* the quickList itself (a map from key to list element plus a             *)
(* container/list of rows).                                                *)
(*                                                                         *)
(* Six specifications share the operators that model quickList:            *)
(*   SpecQL    one quickList driven directly by set / remove / getByID /   *)
(*             iterate with arbitrary unsigned arguments;                  *)
(*   Spec      the store's client side, with goroutines calling its        *)
(*             methods concurrently;                                       *)
(*   SpecSeq   one goroutine calling every method of the store;            *)
(*   SpecSubs  the store's subscription side, with goroutines calling its  *)
(*             methods concurrently;                                       *)
(*   SpecEnv   one goroutine calling the client side and                   *)
(*             clientService.Get while the clock advances and the          *)
(*             statistics source changes;                                  *)
(*   SpecFair  goroutines calling both sides under a fair scheduler.       *)
(***************************************************************************)
EXTENDS Integers, Sequences, FiniteSets, TLC

VARIABLES
    ql,     \* SpecQL: the quickList under test
    qres,   \* SpecQL: the last call on ql and what it returned
    gq,     \* SpecQL: what the calls on ql asked for (see HistSet)
    clientList,     \* store.clientList
    subscriptions,  \* store.subscriptions
    clientMu,       \* store.clientMu: the goroutine holding it, or Nil
    subMu,          \* store.subMu: the goroutine holding it, or Nil
    heap,           \* the *Client records alive, by pointer
    statsSrc,       \* store.statsReader: each client's current statistics
    now,            \* the wall clock timestamppb.Now() reads
    th,             \* each goroutine's call in progress and its locals
    gc,             \* what the calls on clientList asked for
    gs              \* what the calls on subscriptions asked for, by (client, topic)

\* Go's nil (an absent *list.Element, *Client or timestamp).  Elements,
\* pointers and timestamps are numbered from 1.
Nil == 0

(***************************************************************************)
(* Unsigned machine words.  Go's uint is 32 or 64 bits wide; TLC's         *)
(* integers are 32-bit, so the word is modelled UintBits wide and all      *)
(* uint arithmetic is taken modulo 2^UintBits, which wraps exactly as the  *)
(* real word does, only sooner.                                            *)
(***************************************************************************)
UintBits == 6
UintMod == 2 ^ UintBits
UintMax == UintMod - 1

\* uint + uint, uint - uint, uint * uint: Go wraps silently.
UAdd(a, b) == (a + b) % UintMod
USub(a, b) == (a - b + UintMod) % UintMod
UMul(a, b) == (a * b) % UintMod

\* int(offset): the conversion uint -> int keeps the bits, so a word with
\* its top bit set becomes negative.
ToInt(u) == IF u >= UintMod \div 2 THEN u - UintMod ELSE u

(***************************************************************************)
(* quickList: index maps a key to its element, rows is the list of         *)
(* elements in order, Value is each linked element's e.Value.              *)
(***************************************************************************)
Range(s) == {s[j] : j \in 1..Len(s)}

\* The position of element e in the rows (0 when it is not linked).
PosOf(rows, e) == IF e \in Range(rows) THEN CHOOSE j \in 1..Len(rows) : rows[j] = e ELSE 0

\* A fresh object identity: the least number no live object has.
Fresh(used) == CHOOSE x \in 1..(Cardinality(used) + 1) : x \notin used

newQuickList == [index |-> <<>>, rows |-> <<>>, Value |-> <<>>]

\* rows.Len()
ListLen(q) == Len(q.rows)

\* rows.Front(): the first element, nil for an empty list.
Front(q) == IF q.rows = <<>> THEN Nil ELSE q.rows[1]

\* e.Next(): the element after e; nil at the tail and for an element that is
\* no longer linked (container/list clears a removed element's list).
NextElem(q, e) ==
    LET p == PosOf(q.rows, e)
    IN  IF p = 0 \/ p = Len(q.rows) THEN Nil ELSE q.rows[p + 1]

\* rows.PushBack(value), with `busy` the elements other goroutines still
\* point at: a new element at the tail.
PushBackElem(q, busy) == Fresh(Range(q.rows) \cup busy)

\* rows.Remove(elem): unlink elem.
ListRemove(rows, elem) == SelectSeq(rows, LAMBDA x : x # elem)

Restrict(f, S) == [x \in S |-> f[x]]

\* q.set(id, value); `busy` are the elements other goroutines point at.
setAlwaysPushBack(q, id, value, busy) ==
    LET elem == PushBackElem(q, busy)
    IN  [index |-> [k \in DOMAIN q.index \cup {id} |-> IF k = id THEN elem ELSE q.index[k]],
         rows  |-> Append(q.rows, elem),
         Value |-> [e \in DOMAIN q.Value \cup {elem} |-> IF e = elem THEN value ELSE q.Value[e]]]

setMoveToBack(q, id, value, busy) ==
    IF id \in DOMAIN q.index
    THEN [index |-> q.index,
          rows  |-> Append(ListRemove(q.rows, q.index[id]), q.index[id]),
          Value |-> [q.Value EXCEPT ![q.index[id]] = value]]
    ELSE setAlwaysPushBack(q, id, value, busy)

setPushFront(q, id, value, busy) ==
    IF id \in DOMAIN q.index
    THEN [q EXCEPT !.Value[q.index[id]] = value]
    ELSE LET elem == PushBackElem(q, busy)
         IN  [index |-> [k \in DOMAIN q.index \cup {id} |->
                            IF k = id THEN elem ELSE q.index[k]],
              rows  |-> <<elem>> \o q.rows,
              Value |-> [e \in DOMAIN q.Value \cup {elem} |->
                            IF e = elem THEN value ELSE q.Value[e]]]

setKeepOldValue(q, id, value, busy) ==
    IF id \in DOMAIN q.index THEN q ELSE setAlwaysPushBack(q, id, value, busy)

set(q, id, value, busy) ==
    IF id \in DOMAIN q.index
    THEN [q EXCEPT !.Value[q.index[id]] = value]
    ELSE LET elem == PushBackElem(q, busy)
         IN  [index |-> [k \in DOMAIN q.index \cup {id} |->
                            IF k = id THEN elem ELSE q.index[k]],
              rows  |-> Append(q.rows, elem),
              Value |-> [e \in DOMAIN q.Value \cup {elem} |->
                            IF e = elem THEN value ELSE q.Value[e]]]

\* q.getByID(id): the element, nil when the map has no such key.
getByID(q, id) == IF id \in DOMAIN q.index THEN q.index[id] ELSE Nil

\* q.remove(id)
removeKeepIndex(q, id) ==
    LET elem == getByID(q, id)
    IN  IF elem # Nil
        THEN [index |-> q.index,
              rows  |-> ListRemove(q.rows, elem),
              Value |-> Restrict(q.Value, DOMAIN q.Value \ {elem})]
        ELSE q

\* A remove that forgets the key but leaves its row linked.
removeKeepRow(q, id) ==
    [index |-> Restrict(q.index, DOMAIN q.index \ {id}), rows |-> q.rows, Value |-> q.Value]

removeTailIfAbsent(q, id) ==
    LET elem == IF id \in DOMAIN q.index THEN q.index[id]
                ELSE IF q.rows = <<>> THEN Nil ELSE q.rows[Len(q.rows)]
    IN  [index |-> Restrict(q.index, {k \in DOMAIN q.index : q.index[k] # elem}),
         rows  |-> ListRemove(q.rows, elem),
         Value |-> Restrict(q.Value, DOMAIN q.Value \ {elem})]

remove(q, id) ==
    LET elem == getByID(q, id)
    IN  [index |-> Restrict(q.index, DOMAIN q.index \ {id}),
         rows  |-> IF elem # Nil THEN ListRemove(q.rows, elem) ELSE q.rows,
         Value |-> IF elem # Nil THEN Restrict(q.Value, DOMAIN q.Value \ {elem}) ELSE q.Value]

(***************************************************************************)
(* q.iterate(fn, offset, n), one loop iteration at a time.  An iteration   *)
(* in progress is [i, e, out, done]: the counter, the cursor, the elements *)
(* fn has been called on so far, and whether the call has returned.        *)
(***************************************************************************)
\* Lines 90-94: the early return and the loop's initialisation.
iterStart(q, offset) ==
    IF ListLen(q) < ToInt(offset)
    THEN [i |-> 0, e |-> Nil, out |-> <<>>, done |-> TRUE]
    ELSE [i |-> 0, e |-> Front(q), out |-> <<>>, done |-> Front(q) = Nil]

\* Lines 94-102: one pass through the loop body, then e = e.Next().
iterStep(q, it, offset, n) ==
    LET out2 == IF it.i >= offset /\ it.i < UAdd(offset, n)
                THEN Append(it.out, it.e) ELSE it.out
    IN  IF it.i = UAdd(offset, n)
        THEN [it EXCEPT !.out = out2, !.done = TRUE]
        ELSE [i |-> UAdd(it.i, 1), e |-> NextElem(q, it.e), out |-> out2,
              done |-> NextElem(q, it.e) = Nil]

RECURSIVE iterRun(_, _, _, _)
iterRun(q, it, offset, n) ==
    IF it.done THEN it.out ELSE iterRun(q, iterStep(q, it, offset, n), offset, n)

\* The whole call: the elements fn is called on, in call order.
iterate(q, offset, n) == iterRun(q, iterStart(q, offset), offset, n)

(***************************************************************************)
(* What the calls made on one quickList ask for, kept beside it to state   *)
(* the claims: the sequence of [k, v] with one entry per key that was set  *)
(* and not removed since, in the order of each key's first such set, v the *)
(* value of its most recent set.  It is computed from the calls' arguments *)
(* alone, never from the quickList.                                        *)
(***************************************************************************)
HistKeys(h) == {h[j].k : j \in 1..Len(h)}

HistSet(h, k, v) ==
    IF k \in HistKeys(h)
    THEN [j \in 1..Len(h) |-> IF h[j].k = k THEN [k |-> k, v |-> v] ELSE h[j]]
    ELSE Append(h, [k |-> k, v |-> v])

HistRemove(h, k) == SelectSeq(h, LAMBDA x : x.k # k)

(***************************************************************************)
(* The store.  A *Client is a pointer into heap; the record's stats field  *)
(* stands for the nine counters fillClientInfo copies together from one    *)
(* GetClientStats answer.                                                  *)
(***************************************************************************)
MaxTime == 2
MaxStat == 2

\* newClientInfo(client): the projection of a connection, not yet enriched.
newClientInfo(id, user) ==
    [ClientId |-> id, Username |-> user, DisconnectedAt |-> Nil, stats |-> 0]

\* s.getClientByIDLocked(clientID)
getClientByIDLocked(q, id) ==
    IF getByID(q, id) # Nil THEN q.Value[getByID(q, id)] ELSE Nil

\* Whether fillClientInfo(c, stsReader) reaches stsReader.GetClientStats.
consultsSource(c) == c # Nil

\* fillClientInfo(c, stsReader): the heap after the call.
fillClientInfoCached(h, c, src) ==
    IF c = Nil \/ c \notin DOMAIN h THEN h
    ELSE IF ~src[h[c].ClientId].ok \/ h[c].stats # 0 THEN h
    ELSE [h EXCEPT ![c].stats = src[h[c].ClientId].v]

fillClientInfoZeroOnMiss(h, c, src) ==
    IF c = Nil \/ c \notin DOMAIN h THEN h
    ELSE IF ~src[h[c].ClientId].ok THEN [h EXCEPT ![c].stats = 0]
    ELSE [h EXCEPT ![c].stats = src[h[c].ClientId].v]

fillClientInfo(h, c, src) ==
    IF ~consultsSource(c) \/ c \notin DOMAIN h THEN h
    ELSE IF ~src[h[c].ClientId].ok THEN h
    ELSE [h EXCEPT ![c].stats = src[h[c].ClientId].v]

\* getOffsetN(page, pageSize)
getOffsetNPageZeroBased(page, pageSize) ==
    [offset |-> UMul(page, pageSize), n |-> pageSize]

getOffsetN(page, pageSize) ==
    [offset |-> UMul(USub(page, 1), pageSize), n |-> pageSize]

\* The key addSubscription and removeSubscription build.
subKey(clientID, topicName) == clientID \o "_" \o topicName

\* The Subscription record addSubscription builds.
newSubInfo(clientID, topicName, qos) ==
    [ClientId |-> clientID, TopicName |-> topicName, Qos |-> qos]

NoIter == [i |-> 0, e |-> Nil, out |-> <<>>, done |-> TRUE]

\* A goroutine outside any call.
IdleTh ==
    [pc |-> "idle", op |-> "none", id |-> "", topic |-> "", user |-> 0, qos |-> 0,
     page |-> 0, pageSize |-> 0, c |-> Nil, it |-> NoIter, rs |-> <<>>, srs |-> <<>>,
     total |-> 0, view |-> <<>>, api |-> "none", err |-> "nil"]

ClientOps == {"addClient", "setClientDisconnected", "removeClient", "GetClientByID",
              "GetClients"}
SubOps == {"addSubscription", "removeSubscription", "GetSubscriptions"}

\* uint32(rows.Len()): the total the listings return.
Uint32Bits == 5
ToUint32(x) == x % (2 ^ Uint32Bits)

\* The elements other goroutines' iterations over the list of `ops` point at.
Cursors(ops) ==
    UNION {{th[t].it.e} \cup Range(th[t].it.out) : t \in {u \in DOMAIN th : th[u].op \in ops}}
        \ {Nil}

(***************************************************************************)
(* Object identity.  Which number an element or a record carries means     *)
(* nothing to the program: only whether two references are the same        *)
(* object does.  After every step the live objects are renumbered 1, 2,    *)
(* ... in the order a fixed walk meets them (the rows front to back, then  *)
(* each goroutine's references), so that states differing only in the      *)
(* numbering are one state.                                                *)
(***************************************************************************)
\* The renumbering the walk s gives: each object met, to its rank.
RECURSIVE NumberFrom(_, _)
NumberFrom(s, r) ==
    IF s = <<>> THEN r
    ELSE IF Head(s) \in DOMAIN r THEN NumberFrom(Tail(s), r)
    ELSE NumberFrom(Tail(s), r @@ (Head(s) :> Cardinality(DOMAIN r)))

Numbering(s) == NumberFrom(s, Nil :> Nil)

RECURSIVE SetToSeq(_)
SetToSeq(S) == IF S = {} THEN <<>> ELSE LET x == CHOOSE y \in S : TRUE
                                        IN  <<x>> \o SetToSeq(S \ {x})

RECURSIVE Flatten(_)
Flatten(ss) == IF ss = <<>> THEN <<>> ELSE Head(ss) \o Flatten(Tail(ss))

RenameFn(f, r) == [y \in {r[x] : x \in DOMAIN f} |-> f[CHOOSE x \in DOMAIN f : r[x] = y]]
RenameSeq(s, r) == [j \in 1..Len(s) |-> r[s[j]]]

\* The walk over a list's elements: rows, then the cursors in T of the
\* goroutines running `ops`, then whatever else index still maps to.
ElemWalk(q, T, ops) ==
    q.rows
      \o Flatten([t \in 1..Len(T) |->
                    IF T[t].op \in ops THEN <<T[t].it.e>> \o T[t].it.out ELSE <<>>])
      \o SetToSeq({q.index[k] : k \in DOMAIN q.index} \ Range(q.rows))
      \o SetToSeq(DOMAIN q.Value \ Range(q.rows))

RenameList(q, r) ==
    [index |-> [k \in DOMAIN q.index |-> r[q.index[k]]],
     rows  |-> RenameSeq(q.rows, r),
     Value |-> RenameFn(q.Value, r)]

RenameCursors(T, ops, r) ==
    [t \in 1..Len(T) |->
        IF T[t].op \in ops
        THEN [T[t] EXCEPT !.it.e = r[@], !.it.out = RenameSeq(@, r)]
        ELSE T[t]]

\* The walk over the records: the client list's, then each goroutine's.
PtrWalk(cl, T) ==
    [j \in 1..Len(cl.rows) |->
        IF cl.rows[j] \in DOMAIN cl.Value THEN cl.Value[cl.rows[j]] ELSE Nil]
      \o SetToSeq({cl.Value[e] : e \in DOMAIN cl.Value \ Range(cl.rows)})
      \o Flatten([t \in 1..Len(T) |-> <<T[t].c>> \o T[t].rs])

RenamePtrs(T, r) ==
    [t \in 1..Len(T) |->
        [T[t] EXCEPT !.c = r[@], !.rs = RenameSeq(@, r), !.view = RenameFn(@, r)]]

svars == <<clientList, subscriptions, clientMu, subMu, heap, statsSrc, now, th, gc, gs>>

\* The inputs the calls draw from.
ClientIDs == {"a", "b", "c"}
QosLevels == {0, 1}

\* newStore(statsReader), with goroutines T.
SInit(T) ==
    /\ clientList = newQuickList
    /\ subscriptions = newQuickList
    /\ clientMu = Nil
    /\ subMu = Nil
    /\ heap = <<>>
    /\ statsSrc = [id \in ClientIDs |-> [ok |-> FALSE, v |-> 0]]
    /\ now = 1
    /\ th = [t \in T |-> IdleTh]
    /\ gc = <<>>
    /\ gs = <<>>

\* The client side after a step: goroutines T, client list cl, heap h.
\* Records nothing points at any more are freed; see Object identity.
CommitClient(T, cl, h) ==
    \E T1 \in {T}, cl1 \in {cl}, h1 \in {h} :
    \E re \in {Numbering(ElemWalk(cl1, T1, ClientOps))} :
    \E cl2 \in {RenameList(cl1, re)}, T2 \in {RenameCursors(T1, ClientOps, re)} :
    \E rp \in {Numbering(PtrWalk(cl2, T2))} :
        /\ th' = RenamePtrs(T2, rp)
        /\ clientList' = [cl2 EXCEPT !.Value = [e \in DOMAIN cl2.Value |-> rp[cl2.Value[e]]]]
        /\ heap' = RenameFn(Restrict(h1, DOMAIN h1 \cap DOMAIN rp), rp)

\* The subscription side after a step.
CommitSub(T, sl) ==
    \E T1 \in {T}, sl1 \in {sl} :
    \E re \in {Numbering(ElemWalk(sl1, T1, SubOps))} :
        /\ th' = RenameCursors(T1, SubOps, re)
        /\ subscriptions' = RenameList(sl1, re)

\* The quickList of SpecQL after a call.
CanonQL(q) == RenameList(q, Numbering(ElemWalk(q, <<>>, {})))

\* What a call hands to its caller: the goroutine's state once the call has
\* returned, with rs (or c) and total after a getter.  view is what the
\* returned records hold at that moment.
Returned(cur, h, total) ==
    [cur EXCEPT !.pc = "done", !.it = NoIter, !.total = total,
                !.view = Restrict(h, (Range(cur.rs) \cup {cur.c}) \cap DOMAIN h)]

(***************************************************************************)
(* The two mutexes.  A call is: the call itself (the goroutine now waits   *)
(* for the mutex), Lock, then the steps of the body; the step that ends    *)
(* the body also runs the Unlock, explicit or deferred.                    *)
(***************************************************************************)
\* s.clientMu.Lock()
LockClientNoWait(t) ==
    /\ th[t].pc = "lock" /\ th[t].op \in ClientOps
    /\ clientMu' = t
    /\ th' = [th EXCEPT ![t].pc = "cs"]
    /\ UNCHANGED <<ql, qres, gq, clientList, subscriptions, subMu, heap, statsSrc, now, gc, gs>>

LockClient(t) ==
    /\ th[t].pc = "lock" /\ th[t].op \in ClientOps
    /\ clientMu = Nil
    /\ clientMu' = t
    /\ th' = [th EXCEPT ![t].pc = "cs"]
    /\ UNCHANGED <<ql, qres, gq, clientList, subscriptions, subMu, heap, statsSrc, now, gc, gs>>

\* A body that returns without the Unlock.
UnlockClientMissing == clientMu' = clientMu

\* s.clientMu.Unlock()
UnlockClient == clientMu' = Nil

\* s.subMu.Lock()
LockSub(t) ==
    /\ th[t].pc = "lock" /\ th[t].op \in SubOps
    /\ subMu = Nil
    /\ subMu' = t
    /\ th' = [th EXCEPT ![t].pc = "cs"]
    /\ UNCHANGED <<ql, qres, gq, clientList, subscriptions, clientMu, heap, statsSrc, now, gc, gs>>

\* s.subMu.Unlock()
UnlockSub == subMu' = Nil

\* The caller is done with what the call returned.
Return(t) ==
    /\ th[t].pc = "done"
    /\ CommitClient([th EXCEPT ![t] = IdleTh], clientList, heap)
    /\ UNCHANGED <<ql, qres, gq, subscriptions, clientMu, subMu, statsSrc, now, gc, gs>>

(***************************************************************************)
(* addClient                                                               *)
(***************************************************************************)
\* c := newClientInfo(client), before the lock is taken.
CallAddClient(t, id, user) ==
    /\ th[t].pc = "idle"
    /\ LET c == Fresh(DOMAIN heap)
       IN  CommitClient([th EXCEPT ![t] = [IdleTh EXCEPT !.pc = "lock", !.op = "addClient",
                                                        !.id = id, !.user = user, !.c = c]],
                        clientList,
                        [p \in DOMAIN heap \cup {c} |->
                            IF p = c THEN newClientInfo(id, user) ELSE heap[p]])
    /\ UNCHANGED <<ql, qres, gq, subscriptions, clientMu, subMu, statsSrc, now, gc, gs>>

\* s.clientList.set(c.ClientId, c); s.clientMu.Unlock()
AddClientSet(t) ==
    /\ th[t].pc = "cs" /\ th[t].op = "addClient"
    /\ CommitClient([th EXCEPT ![t] = Returned([th[t] EXCEPT !.c = Nil], heap, 0)],
                    set(clientList, th[t].id, th[t].c, Cursors(ClientOps)), heap)
    /\ gc' = HistSet(gc, th[t].id, th[t].user)
    /\ UnlockClient
    /\ UNCHANGED <<ql, qres, gq, subscriptions, subMu, statsSrc, now, gs>>

(***************************************************************************)
(* setClientDisconnected                                                   *)
(***************************************************************************)
CallSetClientDisconnected(t, id) ==
    /\ th[t].pc = "idle"
    /\ th' = [th EXCEPT ![t] = [IdleTh EXCEPT !.pc = "lock",
                                              !.op = "setClientDisconnected", !.id = id]]
    /\ UNCHANGED <<ql, qres, gq, clientList, subscriptions, clientMu, subMu, heap, statsSrc, now, gc, gs>>

\* Lines 115-119: the heap after them (the list itself is not touched).
setClientDisconnectedHeapOnce(cl, h, id, time) ==
    LET l == getByID(cl, id)
    IN  IF l = Nil \/ h[cl.Value[l]].DisconnectedAt # Nil THEN h
        ELSE [h EXCEPT ![cl.Value[l]].DisconnectedAt = time]

setClientDisconnectedHeap(cl, h, id, time) ==
    LET l == getByID(cl, id)
    IN  IF l = Nil THEN h ELSE [h EXCEPT ![cl.Value[l]].DisconnectedAt = time]

SetClientDisconnectedBody(t) ==
    /\ th[t].pc = "cs" /\ th[t].op = "setClientDisconnected"
    /\ CommitClient([th EXCEPT ![t] = Returned(th[t], heap, 0)], clientList,
                    setClientDisconnectedHeap(clientList, heap, th[t].id, now))
    /\ UnlockClient
    /\ UNCHANGED <<ql, qres, gq, subscriptions, subMu, statsSrc, now, gc, gs>>

(***************************************************************************)
(* removeClient                                                            *)
(***************************************************************************)
CallRemoveClient(t, id) ==
    /\ th[t].pc = "idle"
    /\ th' = [th EXCEPT ![t] = [IdleTh EXCEPT !.pc = "lock", !.op = "removeClient",
                                              !.id = id]]
    /\ UNCHANGED <<ql, qres, gq, clientList, subscriptions, clientMu, subMu, heap, statsSrc, now, gc, gs>>

RemoveClientBody(t) ==
    /\ th[t].pc = "cs" /\ th[t].op = "removeClient"
    /\ CommitClient([th EXCEPT ![t] = Returned(th[t], heap, 0)], remove(clientList, th[t].id), heap)
    /\ gc' = HistRemove(gc, th[t].id)
    /\ UnlockClient
    /\ UNCHANGED <<ql, qres, gq, subscriptions, subMu, statsSrc, now, gs>>

(***************************************************************************)
(* GetClientByID                                                           *)
(***************************************************************************)
CallGetClientByID(t, id) ==
    /\ th[t].pc = "idle"
    /\ th' = [th EXCEPT ![t] = [IdleTh EXCEPT !.pc = "lock", !.op = "GetClientByID",
                                              !.id = id]]
    /\ UNCHANGED <<ql, qres, gq, clientList, subscriptions, clientMu, subMu, heap, statsSrc, now, gc, gs>>

GetClientByIDBody(t) ==
    /\ th[t].pc = "cs" /\ th[t].op = "GetClientByID"
    /\ LET c == getClientByIDLocked(clientList, th[t].id)
           h == fillClientInfo(heap, c, statsSrc)
       IN  CommitClient([th EXCEPT ![t] = Returned([th[t] EXCEPT !.c = c], h, 0)],
                        clientList, h)
    /\ UnlockClient
    /\ UNCHANGED <<ql, qres, gq, subscriptions, subMu, statsSrc, now, gc, gs>>

(***************************************************************************)
(* clientService.Get, the boundary operation over GetClientByID            *)
(***************************************************************************)
\* if req.ClientId == "" { return nil, InvalidArgument("client_id", "") }
\* client := c.a.store.GetClientByID(req.ClientId)
\* return &GetClientResponse{Client: client}, nil
\* The response is err ("nil" for Go's nil error) with, when err is nil,
\* Client = the c that
\* GetClientByID returned; no statement of Get sets err after the store call.
Get(t, ClientId) ==
    /\ th[t].pc = "idle"
    /\ th' = [th EXCEPT ![t] =
                IF ClientId = ""
                THEN [IdleTh EXCEPT !.pc = "done", !.api = "Get",
                                    !.err = "InvalidArgument"]
                ELSE [IdleTh EXCEPT !.pc = "lock", !.op = "GetClientByID",
                                    !.id = ClientId, !.api = "Get"]]
    /\ UNCHANGED <<ql, qres, gq, clientList, subscriptions, clientMu, subMu, heap, statsSrc, now, gc, gs>>

(***************************************************************************)
(* GetClients                                                              *)
(***************************************************************************)
CallGetClients(t, page, pageSize) ==
    /\ th[t].pc = "idle"
    /\ th' = [th EXCEPT ![t] = [IdleTh EXCEPT !.pc = "lock", !.op = "GetClients",
                                              !.page = page, !.pageSize = pageSize]]
    /\ UNCHANGED <<ql, qres, gq, clientList, subscriptions, clientMu, subMu, heap, statsSrc, now, gc, gs>>

\* offset, n := getOffsetN(page, pageSize), and iterate up to its loop.  An
\* iterate that returns at once is followed by the return statement.
GetClientsStart(t) ==
    /\ th[t].pc = "cs" /\ th[t].op = "GetClients"
    /\ LET it == iterStart(clientList, getOffsetN(th[t].page, th[t].pageSize).offset)
       IN  IF it.done
           THEN /\ CommitClient([th EXCEPT ![t] =
                                    Returned(th[t], heap, ToUint32(ListLen(clientList)))],
                                clientList, heap)
                /\ UnlockClient
           ELSE /\ CommitClient([th EXCEPT ![t].it = it, ![t].pc = "iter"],
                                clientList, heap)
                /\ UNCHANGED clientMu
    /\ UNCHANGED <<ql, qres, gq, subscriptions, subMu, statsSrc, now, gc, gs>>

\* One pass of iterate's loop: fn enriches the visited record and appends it
\* to rs.  The last pass is followed by the return statement.
GetClientsStep(t) ==
    /\ th[t].pc = "iter" /\ th[t].op = "GetClients"
    /\ LET on == getOffsetN(th[t].page, th[t].pageSize)
           it == iterStep(clientList, th[t].it, on.offset, on.n)
           visited == Len(it.out) > Len(th[t].it.out)
           c == IF th[t].it.e \in DOMAIN clientList.Value
                THEN clientList.Value[th[t].it.e] ELSE Nil
           h == IF visited THEN fillClientInfo(heap, c, statsSrc) ELSE heap
           cur == [th[t] EXCEPT !.it = it, !.rs = IF visited THEN Append(@, c) ELSE @]
       IN  IF it.done
           THEN /\ CommitClient([th EXCEPT ![t] =
                                    Returned(cur, h, ToUint32(ListLen(clientList)))],
                                clientList, h)
                /\ UnlockClient
           ELSE /\ CommitClient([th EXCEPT ![t] = cur], clientList, h)
                /\ UNCHANGED clientMu
    /\ UNCHANGED <<ql, qres, gq, subscriptions, subMu, statsSrc, now, gc, gs>>

(***************************************************************************)
(* addSubscription, removeSubscription, GetSubscriptions                   *)
(***************************************************************************)
CallAddSubscription(t, clientID, topicName, qos) ==
    /\ th[t].pc = "idle"
    /\ th' = [th EXCEPT ![t] = [IdleTh EXCEPT !.pc = "lock", !.op = "addSubscription",
                                              !.id = clientID, !.topic = topicName,
                                              !.qos = qos]]
    /\ UNCHANGED <<ql, qres, gq, clientList, subscriptions, clientMu, subMu, heap, statsSrc, now, gc, gs>>

AddSubscriptionSet(t) ==
    /\ th[t].pc = "cs" /\ th[t].op = "addSubscription"
    /\ LET subInfo == newSubInfo(th[t].id, th[t].topic, th[t].qos)
       IN  /\ CommitSub([th EXCEPT ![t] = Returned(th[t], heap, 0)],
                         set(subscriptions, subKey(th[t].id, th[t].topic), subInfo,
                             Cursors(SubOps)))
           /\ gs' = HistSet(gs, <<th[t].id, th[t].topic>>, subInfo)
    /\ UnlockSub
    /\ UNCHANGED <<ql, qres, gq, clientList, clientMu, heap, statsSrc, now, gc>>

CallRemoveSubscription(t, clientID, topicName) ==
    /\ th[t].pc = "idle"
    /\ th' = [th EXCEPT ![t] = [IdleTh EXCEPT !.pc = "lock", !.op = "removeSubscription",
                                              !.id = clientID, !.topic = topicName]]
    /\ UNCHANGED <<ql, qres, gq, clientList, subscriptions, clientMu, subMu, heap, statsSrc, now, gc, gs>>

RemoveSubscriptionBody(t) ==
    /\ th[t].pc = "cs" /\ th[t].op = "removeSubscription"
    /\ CommitSub([th EXCEPT ![t] = Returned(th[t], heap, 0)],
                 remove(subscriptions, subKey(th[t].id, th[t].topic)))
    /\ gs' = HistRemove(gs, <<th[t].id, th[t].topic>>)
    /\ UnlockSub
    /\ UNCHANGED <<ql, qres, gq, clientList, clientMu, heap, statsSrc, now, gc>>

CallGetSubscriptions(t, page, pageSize) ==
    /\ th[t].pc = "idle"
    /\ th' = [th EXCEPT ![t] = [IdleTh EXCEPT !.pc = "lock", !.op = "GetSubscriptions",
                                              !.page = page, !.pageSize = pageSize]]
    /\ UNCHANGED <<ql, qres, gq, clientList, subscriptions, clientMu, subMu, heap, statsSrc, now, gc, gs>>

GetSubscriptionsStart(t) ==
    /\ th[t].pc = "cs" /\ th[t].op = "GetSubscriptions"
    /\ LET it == iterStart(subscriptions, getOffsetN(th[t].page, th[t].pageSize).offset)
       IN  IF it.done
           THEN /\ CommitSub([th EXCEPT ![t] =
                                 Returned(th[t], heap, ToUint32(ListLen(subscriptions)))],
                             subscriptions)
                /\ UnlockSub
           ELSE /\ CommitSub([th EXCEPT ![t].it = it, ![t].pc = "iter"], subscriptions)
                /\ UNCHANGED subMu
    /\ UNCHANGED <<ql, qres, gq, clientList, clientMu, heap, statsSrc, now, gc, gs>>

GetSubscriptionsStep(t) ==
    /\ th[t].pc = "iter" /\ th[t].op = "GetSubscriptions"
    /\ LET on == getOffsetN(th[t].page, th[t].pageSize)
           it == iterStep(subscriptions, th[t].it, on.offset, on.n)
           visited == Len(it.out) > Len(th[t].it.out)
           cur == [th[t] EXCEPT !.it = it,
                                !.srs = IF visited /\ th[t].it.e \in DOMAIN subscriptions.Value
                                        THEN Append(@, subscriptions.Value[th[t].it.e])
                                        ELSE @]
       IN  IF it.done
           THEN /\ CommitSub([th EXCEPT ![t] =
                                 Returned(cur, heap, ToUint32(ListLen(subscriptions)))],
                             subscriptions)
                /\ UnlockSub
           ELSE /\ CommitSub([th EXCEPT ![t] = cur], subscriptions)
                /\ UNCHANGED subMu
    /\ UNCHANGED <<ql, qres, gq, clientList, clientMu, heap, statsSrc, now, gc, gs>>

(***************************************************************************)
(* The environment: the clock advances, the broker's statistics change.    *)
(***************************************************************************)
Tick ==
    /\ now < MaxTime
    /\ now' = now + 1
    /\ UNCHANGED <<ql, qres, gq, clientList, subscriptions, clientMu, subMu, heap, statsSrc, th, gc, gs>>

StatsChange(id, v) ==
    /\ statsSrc[id] # [ok |-> TRUE, v |-> v]
    /\ statsSrc' = [statsSrc EXCEPT ![id] = [ok |-> TRUE, v |-> v]]
    /\ UNCHANGED <<ql, qres, gq, clientList, subscriptions, clientMu, subMu, heap, now, th, gc, gs>>

\* The statistics source stops having data for id (GetClientStats answers
\* ok = false from then on).
StatsForget(id) ==
    /\ statsSrc[id].ok
    /\ statsSrc' = [statsSrc EXCEPT ![id] = [ok |-> FALSE, v |-> 0]]
    /\ UNCHANGED <<ql, qres, gq, clientList, subscriptions, clientMu, subMu, heap, now, th, gc, gs>>

(***************************************************************************)
(* SpecQL: one quickList, called directly and sequentially.                *)
(***************************************************************************)
QKeys == {"a", "b", "c"}
QVals == {1, 2}
\* Arguments for iterate: small ones around the list's length, and the
\* largest words.
Uints == 0..3 \cup {UintMod \div 2, UintMax}

qvars == <<ql, qres, gq>>

\* gone: the keys some remove has found and removed so far.
QRes(op, key, val, off, n, out, existed, gone) ==
    [op |-> op, key |-> key, val |-> val, off |-> off, n |-> n, out |-> out,
     existed |-> existed, gone |-> gone]

QInit ==
    /\ ql = newQuickList
    /\ qres = QRes("new", "", Nil, 0, 0, <<>>, FALSE, {})
    /\ gq = <<>>

QSet(k, v) ==
    /\ ql' = CanonQL(set(ql, k, v, {}))
    /\ qres' = QRes("set", k, v, 0, 0,
                    IF k \in DOMAIN ql.index THEN <<ql.Value[ql.index[k]]>> ELSE <<>>,
                    k \in DOMAIN ql.index, qres.gone)
    /\ gq' = HistSet(gq, k, v)
    /\ UNCHANGED svars

QRemove(k) ==
    /\ ql' = CanonQL(remove(ql, k))
    /\ qres' = QRes("remove", k, Nil, 0, 0, <<getByID(ql, k)>>, k \in DOMAIN ql.index,
                    IF k \in DOMAIN ql.index THEN qres.gone \cup {k} ELSE qres.gone)
    /\ gq' = HistRemove(gq, k)
    /\ UNCHANGED svars

QGetByID(k) ==
    /\ qres' = QRes("getByID", k, Nil, 0, 0, <<getByID(ql, k)>>, k \in DOMAIN ql.index,
                    qres.gone)
    /\ UNCHANGED <<ql, gq>>
    /\ UNCHANGED svars

QIterate(offset, n) ==
    /\ qres' = QRes("iterate", "", Nil, offset, n, iterate(ql, offset, n), FALSE,
                    qres.gone)
    /\ UNCHANGED <<ql, gq>>
    /\ UNCHANGED svars

QNext ==
    \/ \E k \in QKeys, v \in QVals : QSet(k, v)
    \/ \E k \in QKeys : QRemove(k)
    \/ \E k \in QKeys : QGetByID(k)
    \/ \E offset \in Uints, n \in Uints : QIterate(offset, n)

vars == <<ql, qres, gq, clientList, subscriptions, clientMu, subMu, heap, statsSrc, now,
          th, gc, gs>>

QLInit == QInit /\ SInit({1})

SpecQL == QLInit /\ [][QNext]_vars

(***************************************************************************)
(* Claims about quickList, checked under SpecQL.                           *)
(***************************************************************************)
\* C1: after any sequence of set calls (other keys interleaved), the list
\* holds exactly one entry per key that was set, carrying the value of the
\* key's most recent set, and the entries stand in the order of each key's
\* first set.
C1_SetKeepsOneEntryInPlace ==
    /\ Len(ql.rows) = Len(gq)
    /\ DOMAIN ql.index = HistKeys(gq)
    /\ \A j \in 1..Len(gq) :
          /\ ql.index[gq[j].k] = ql.rows[j]
          /\ ql.rows[j] \in DOMAIN ql.Value
          /\ ql.Value[ql.rows[j]] = gq[j].v

\* A key set again with another value while it stands first of several.
C1_Witness ==
    /\ qres.op = "set" /\ qres.existed /\ qres.out # <<qres.val>>
    /\ Len(ql.rows) >= 2
    /\ ql.index[qres.key] = ql.rows[1]

\* The window [windowStart, windowStart + windowSize) of the rows, computed
\* over the unbounded integers.
Window(rows, windowStart, windowSize) ==
    LET m == Len(rows)
        cnt == IF windowStart >= m THEN 0
               ELSE IF windowSize <= m - windowStart THEN windowSize ELSE m - windowStart
    IN  [j \in 1..cnt |-> rows[windowStart + j]]

\* C2: iterate(fn, windowStart, windowSize) over m entries calls fn on exactly
\* the max(0, min(windowSize, m - windowStart)) entries from position
\* windowStart on, in order, for every pair of unsigned words.
C2_IterateVisitsWindow ==
    qres.op = "iterate" => qres.out = Window(ql.rows, qres.off, qres.n)

(***************************************************************************)
(* Spec: the client side of the store with goroutines calling it           *)
(* concurrently.                                                           *)
(***************************************************************************)
Threads == {1, 2}

ClientSteps(t) ==
    \/ LockClient(t)
    \/ AddClientSet(t)
    \/ SetClientDisconnectedBody(t)
    \/ RemoveClientBody(t)
    \/ GetClientByIDBody(t)
    \/ GetClientsStart(t)
    \/ GetClientsStep(t)

SubSteps(t) ==
    \/ LockSub(t)
    \/ AddSubscriptionSet(t)
    \/ RemoveSubscriptionBody(t)
    \/ GetSubscriptionsStart(t)
    \/ GetSubscriptionsStep(t)

ConcIDs == {"a", "b"}
ConcPages == {<<1, 1>>, <<1, 2>>, <<2, 1>>}

Next ==
    \E t \in Threads :
        \/ \E id \in ConcIDs : CallAddClient(t, id, 1)
        \/ \E id \in ConcIDs : CallSetClientDisconnected(t, id)
        \/ \E id \in ConcIDs : CallRemoveClient(t, id)
        \/ \E id \in ConcIDs : CallGetClientByID(t, id)
        \/ \E pg \in ConcPages : CallGetClients(t, pg[1], pg[2])
        \/ ClientSteps(t)
        \/ Return(t)

Init == QInit /\ SInit(Threads)

Spec == Init /\ [][Next]_vars

(***************************************************************************)
(* SpecSeq: one goroutine calling both sides of the store, with three      *)
(* clients and with pages whose window leaves the word.                    *)
(***************************************************************************)
SeqSubs == {<<"a", "c">>, <<"a_b", "b_c">>}
SeqPages == {<<1, 0>>, <<1, 2>>, <<2, 2>>, <<5, 10>>, <<5, 16>>}

SeqNext ==
    \E t \in {1} :
        \/ \E id \in ClientIDs : CallAddClient(t, id, 1)
        \/ \E id \in ClientIDs : CallSetClientDisconnected(t, id)
        \/ \E id \in ClientIDs : CallRemoveClient(t, id)
        \/ \E id \in ClientIDs : CallGetClientByID(t, id)
        \/ \E pg \in SeqPages : CallGetClients(t, pg[1], pg[2])
        \/ ClientSteps(t)
        \/ \E sub \in SeqSubs, qos \in QosLevels :
              CallAddSubscription(t, sub[1], sub[2], qos)
        \/ \E sub \in SeqSubs : CallRemoveSubscription(t, sub[1], sub[2])
        \/ \E pg \in SeqPages : CallGetSubscriptions(t, pg[1], pg[2])
        \/ SubSteps(t)
        \/ Return(t)

SeqInit == QInit /\ SInit({1})

SpecSeq == SeqInit /\ [][SeqNext]_vars

(***************************************************************************)
(* SpecSubs: the subscription side with goroutines calling it              *)
(* concurrently, with client identifiers and topic filters that hold "_".  *)
(***************************************************************************)
SubPairs == {<<"a", "b_c">>, <<"a_b", "c">>, <<"a", "c">>}
SubPages == {<<1, 1>>, <<1, 4>>}

SubNext ==
    \E t \in Threads :
        \/ \E sub \in SubPairs : CallAddSubscription(t, sub[1], sub[2], 0)
        \/ \E sub \in SubPairs : CallRemoveSubscription(t, sub[1], sub[2])
        \/ \E pg \in SubPages : CallGetSubscriptions(t, pg[1], pg[2])
        \/ SubSteps(t)
        \/ Return(t)

SubInit == QInit /\ SInit(Threads)

SpecSubs == SubInit /\ [][SubNext]_vars

(***************************************************************************)
(* SpecEnv: one goroutine calling the client side while the clock advances *)
(* and the statistics source changes; connections differ in their          *)
(* Username.                                                               *)
(***************************************************************************)
EnvIDs == {"a", "b"}
Usernames == {1, 2}
StatIDs == {"a"}
EnvPages == {<<1, 2>>}

EnvNext ==
    \/ \E t \in {1} :
          \/ \E id \in EnvIDs, user \in Usernames : CallAddClient(t, id, user)
          \/ \E id \in EnvIDs : CallSetClientDisconnected(t, id)
          \/ \E id \in EnvIDs : CallRemoveClient(t, id)
          \/ \E id \in EnvIDs : CallGetClientByID(t, id)
          \/ \E pg \in EnvPages : CallGetClients(t, pg[1], pg[2])
          \/ \E id \in EnvIDs \cup {""} : Get(t, id)
          \/ ClientSteps(t)
          \/ Return(t)
    \/ Tick
    \/ \E id \in StatIDs, v \in 1..MaxStat : StatsChange(id, v)
    \/ \E id \in StatIDs : StatsForget(id)

EnvInit == QInit /\ SInit({1})

SpecEnv == EnvInit /\ [][EnvNext]_vars

(***************************************************************************)
(* SpecFair: goroutines calling both sides of the store, under a fair      *)
(* scheduler.  A goroutine inside a call has exactly one step to take (the *)
(* Lock or the next step of the body).  The Go scheduler runs every        *)
(* runnable goroutine, and sync.Mutex hands the mutex to a waiter that has *)
(* waited for long (its starvation mode), so a goroutine whose step is     *)
(* enabled again and again takes it: strong fairness on the steps of each  *)
(* goroutine.  Nothing obliges a goroutine to start a call.                *)
(***************************************************************************)
FairIDs == {"a"}
FairSubs == {<<"a", "c">>}
FairPages == {<<1, 2>>}

FairNext ==
    \E t \in Threads :
        \/ \E id \in FairIDs : CallAddClient(t, id, 1)
        \/ \E id \in FairIDs : CallSetClientDisconnected(t, id)
        \/ \E id \in FairIDs : CallRemoveClient(t, id)
        \/ \E id \in FairIDs : CallGetClientByID(t, id)
        \/ \E pg \in FairPages : CallGetClients(t, pg[1], pg[2])
        \/ ClientSteps(t)
        \/ \E sub \in FairSubs : CallAddSubscription(t, sub[1], sub[2], 0)
        \/ \E sub \in FairSubs : CallRemoveSubscription(t, sub[1], sub[2])
        \/ \E pg \in FairPages : CallGetSubscriptions(t, pg[1], pg[2])
        \/ SubSteps(t)
        \/ Return(t)

FairInit == QInit /\ SInit(Threads)

SpecFair ==
    /\ FairInit /\ [][FairNext]_vars
    /\ \A t \in Threads : SF_vars(ClientSteps(t) \/ SubSteps(t))

(***************************************************************************)
(* The claims about the store.                                             *)
(***************************************************************************)
IdsOf(h, rs) == [j \in 1..Len(rs) |-> h[rs[j]].ClientId]
KeysOf(hist) == [j \in 1..Len(hist) |-> hist[j].k]
ValsOf(hist) == [j \in 1..Len(hist) |-> hist[j].v]
Listing(t, op) == th[t].op = op /\ th[t].pc \in {"cs", "iter"}
Returns(t, op) == th[t].op = op /\ th[t].pc \in {"cs", "iter"} /\ th'[t].pc = "done"
RecordsOf(q, elems) == [j \in 1..Len(elems) |-> q.Value[elems[j]]]

\* C3: for every page >= 1 and pageSize >= 0, GetClients(page, pageSize) and
\* GetSubscriptions(page, pageSize) return the registry's entries at the
\* insertion-order positions (page-1)*pageSize up to, not including,
\* (page-1)*pageSize + pageSize, clipped to the registry's size, and the
\* registry's whole size as total.
C3_PageIsWindow ==
    \A t \in DOMAIN th :
        th[t].pc = "done" =>
            /\ th[t].op = "GetClients" =>
                  /\ IdsOf(heap, th[t].rs)
                        = KeysOf(Window(gc, (th[t].page - 1) * th[t].pageSize, th[t].pageSize))
                  /\ th[t].total = Len(gc)
            /\ th[t].op = "GetSubscriptions" =>
                  /\ th[t].srs
                        = ValsOf(Window(gs, (th[t].page - 1) * th[t].pageSize, th[t].pageSize))
                  /\ th[t].total = Len(gs)

\* C4: what a getter returned is a copy: the records a caller holds keep the
\* field values they had at the return, whatever the store does afterwards.
C4_ReturnedRecordsAreCopies ==
    \A t \in DOMAIN th :
        th[t].pc = "done" => \A p \in DOMAIN th[t].view : heap[p] = th[t].view[p]

\* C5: the subscription registry holds one record per live (client
\* identifier, topic filter) pair: two subscriptions that differ in the
\* client identifier or in the topic filter are two entries.
C5_OneRecordPerPair ==
    /\ ListLen(subscriptions) = Len(gs)
    /\ \A j \in 1..Len(gs) : subscriptions.Value[subscriptions.rows[j]] = gs[j].v

\* C6: a GetClients or GetSubscriptions call sees one state of its registry:
\* from its Lock to its return no set, remove or setClientDisconnected of
\* another goroutine takes effect on the registry, and what it returns is
\* what iterate yields on that one state.
C6_ListingSeesOneState ==
    [][\A t \in DOMAIN th :
          /\ Listing(t, "GetClients") =>
                /\ clientList' = clientList
                /\ \A e \in Range(clientList.rows) :
                      heap'[clientList.Value[e]].DisconnectedAt
                          = heap[clientList.Value[e]].DisconnectedAt
                /\ th'[t].pc = "done" =>
                      LET on == getOffsetN(th[t].page, th[t].pageSize)
                      IN  /\ th'[t].rs = RecordsOf(clientList,
                                                   iterate(clientList, on.offset, on.n))
                          /\ th'[t].total = ToUint32(ListLen(clientList))
          /\ Listing(t, "GetSubscriptions") =>
                /\ subscriptions' = subscriptions
                /\ th'[t].pc = "done" =>
                      LET on == getOffsetN(th[t].page, th[t].pageSize)
                      IN  /\ th'[t].srs = RecordsOf(subscriptions,
                                                    iterate(subscriptions, on.offset, on.n))
                          /\ th'[t].total = ToUint32(ListLen(subscriptions))
      ]_vars

C6_Witness ==
    \E t, u \in DOMAIN th :
        /\ th[t].op = "GetClients" /\ th[t].pc = "iter" /\ Len(th[t].rs) = 1
        /\ th[u].op \in {"addClient", "removeClient", "setClientDisconnected"}
        /\ th[u].pc = "lock"

\* C7: whatever the interleaving of the goroutines' addClient calls, a
\* listing of the whole client registry returns each live identifier once:
\* none is missing and none appears twice.
C7_ListingHasEachIdOnce ==
    [][\A t \in DOMAIN th :
          (/\ Returns(t, "GetClients")
           /\ th[t].page = 1 /\ th[t].pageSize >= Len(gc)) =>
              LET ids == IdsOf(heap', th'[t].rs)
              IN  /\ Range(ids) = HistKeys(gc)
                  /\ Len(ids) = Cardinality(HistKeys(gc))
      ]_vars

C7_Witness ==
    \E t, u \in DOMAIN th :
        /\ th[t].op = "GetClients" /\ th[t].pc = "done" /\ th[t].page = 1
        /\ Len(th[t].rs) = 2
        /\ th[u].op = "addClient" /\ th[u].pc \in {"lock", "done"}

\* C8: a key that was removed, or that was never set, reads as absent:
\* getByID yields nil for it and GetClientByID returns no record.
C8_RemovedReadsAbsent ==
    [][/\ \A id \in ClientIDs \ HistKeys(gc') : getByID(clientList', id) = Nil
       /\ \A t \in DOMAIN th :
             (Returns(t, "GetClientByID") /\ th[t].id \notin HistKeys(gc)) =>
                 th'[t].c = Nil
      ]_vars

C8_Witness ==
    \E t, u \in DOMAIN th :
        /\ th[t].op = "GetClientByID" /\ th[t].pc = "done" /\ th[t].c = Nil
        /\ th[u].op = "GetClientByID" /\ th[u].pc = "done" /\ th[u].c # Nil
        /\ heap[th[u].c].ClientId = th[t].id

\* C9: removeClient, removeSubscription and setClientDisconnected on a key
\* that is not in the registry return normally and leave both registries and
\* every record as they were; setClientDisconnected does not create a
\* record.
C9_AbsentKeyIsNoOp ==
    [][\A t \in DOMAIN th :
          (\/ /\ Returns(t, "removeClient") \/ Returns(t, "setClientDisconnected")
              /\ th[t].id \notin HistKeys(gc)
           \/ /\ Returns(t, "removeSubscription")
              /\ <<th[t].id, th[t].topic>> \notin HistKeys(gs)) =>
              /\ clientList' = clientList
              /\ subscriptions' = subscriptions
              /\ heap' = heap
      ]_vars

C9_Witness ==
    \E t \in DOMAIN th :
        /\ th[t].op = "setClientDisconnected" /\ th[t].pc = "done"
        /\ th[t].id \notin HistKeys(gc)
        /\ Len(gc) = 2
        /\ \A j \in 1..2 : heap[clientList.Value[clientList.rows[j]]].DisconnectedAt = Nil

\* C10: the size of a registry, and the total a listing returns, is the
\* number of live keys: n after n keys were set, n - k once k of them were
\* removed.
C10_TotalIsLiveKeys ==
    /\ ListLen(clientList) = Cardinality(HistKeys(gc))
    /\ ListLen(subscriptions) = Cardinality(HistKeys(gs))
    /\ \A t \in DOMAIN th :
          th[t].pc = "done" =>
              /\ th[t].op = "GetClients" => th[t].total = Cardinality(HistKeys(gc))
              /\ th[t].op = "GetSubscriptions" => th[t].total = Cardinality(HistKeys(gs))

C10_Witness ==
    \E t \in DOMAIN th :
        /\ th[t].op = "GetClients" /\ th[t].pc = "done"
        /\ th[t].total = 2 /\ Len(gc) = 2
        /\ gc[1].k = "b"

\* The record the client list holds for id (id has one).
RecOf(cl, id) == cl.Value[cl.index[id]]

\* A step of setClientDisconnected on an identifier that has a record leaves
\* the list, every other record and the record's other fields as they were.
DisconnectFrame(t) ==
    LET rec == RecOf(clientList, th[t].id)
    IN  /\ clientList' = clientList
        /\ DOMAIN heap' = DOMAIN heap
        /\ \A p \in DOMAIN heap \ {rec} : heap'[p] = heap[p]
        /\ heap'[rec] = [heap[rec] EXCEPT !.DisconnectedAt = heap'[rec].DisconnectedAt]

IdOrder(cl, h) == IdsOf(h, RecordsOf(cl, cl.rows))

\* C12: addClient for an identifier that has a record replaces the record
\* in place: one record for the identifier, at the position it had, with
\* the new connection's data and disconnected-at nil; for an identifier
\* with no record it appends such a record at the tail.  The other records
\* are as they were.
C12_AddClientReplacesInPlace ==
    [][\A t \in DOMAIN th :
          Returns(t, "addClient") =>
              LET id == th[t].id
              IN  /\ IdOrder(clientList', heap')
                        = IF id \in HistKeys(gc) THEN IdOrder(clientList, heap)
                          ELSE Append(IdOrder(clientList, heap), id)
                  /\ Cardinality({j \in 1..ListLen(clientList') :
                                     IdOrder(clientList', heap')[j] = id}) = 1
                  /\ heap'[RecOf(clientList', id)]
                        = [ClientId |-> id, Username |-> th[t].user,
                           DisconnectedAt |-> Nil, stats |-> 0]
                  /\ \A k \in DOMAIN clientList.index \ {id} :
                        heap'[RecOf(clientList', k)] = heap[RecOf(clientList, k)]
      ]_vars

C12_Witness ==
    \E t \in DOMAIN th :
        /\ th[t].op = "addClient" /\ th[t].pc = "done" /\ th[t].user = 2
        /\ ListLen(clientList) = 2
        /\ clientList.index[th[t].id] = clientList.rows[1]
        /\ heap[RecOf(clientList, th[t].id)].Username = 2
        /\ heap[clientList.Value[clientList.rows[2]]].DisconnectedAt # Nil

\* The positions of the subscription list holding a record of the pair.
PairRows(sl, clientID, topicName) ==
    {j \in 1..ListLen(sl) :
        /\ sl.Value[sl.rows[j]].ClientId = clientID
        /\ sl.Value[sl.rows[j]].TopicName = topicName}

\* C13: every addSubscription(clientID, topic) leaves exactly one record for
\* the pair, holding the data of this call; when the pair already had a
\* record the record keeps its position and the total is unchanged, and
\* only the pair's first call makes the total grow, by one, with the record
\* at the tail.
C13_ResubscribeKeepsOneRecord ==
    [][\A t \in DOMAIN th :
          Returns(t, "addSubscription") =>
              LET id == th[t].id
                  topic == th[t].topic
                  before == PairRows(subscriptions, id, topic)
                  after == PairRows(subscriptions', id, topic)
              IN  /\ Cardinality(after) = 1
                  /\ \A j \in after :
                        subscriptions'.Value[subscriptions'.rows[j]]
                            = newSubInfo(id, topic, th[t].qos)
                  /\ IF <<id, topic>> \in HistKeys(gs)
                     THEN /\ after = before
                          /\ ListLen(subscriptions') = ListLen(subscriptions)
                     ELSE /\ after = {ListLen(subscriptions')}
                          /\ ListLen(subscriptions') = ListLen(subscriptions) + 1
      ]_vars

C13_Witness ==
    \E t \in DOMAIN th :
        /\ th[t].op = "addSubscription" /\ th[t].pc = "done" /\ th[t].qos = 1
        /\ ListLen(subscriptions) = 2
        /\ PairRows(subscriptions, th[t].id, th[t].topic) = {1}
        /\ subscriptions.Value[subscriptions.rows[1]].Qos = 1
        /\ gs[1].v.Qos = 1

\* The keys of a quickList in row order ("" for a row no key maps to).
KeyOrder(q) ==
    [j \in 1..ListLen(q) |->
        IF \E k \in DOMAIN q.index : q.index[k] = q.rows[j]
        THEN CHOOSE k \in DOMAIN q.index : q.index[k] = q.rows[j]
        ELSE ""]

\* C14: remove(k) deletes k's position and leaves the other entries in
\* their order; a set(k, v) on a key the list does not hold, removed before
\* or not, appends k at the tail behind every surviving entry, whose order
\* is unchanged.
C14_ReinsertAppendsAtTail ==
    [][/\ (qres'.op = "set" /\ qres'.key \notin DOMAIN ql.index) =>
              KeyOrder(ql') = Append(KeyOrder(ql), qres'.key)
       /\ qres'.op = "remove" =>
              KeyOrder(ql') = SelectSeq(KeyOrder(ql), LAMBDA k : k # qres'.key)
      ]_vars

C14_Witness ==
    /\ qres.op = "set" /\ qres.key \in qres.gone /\ ~qres.existed
    /\ ListLen(ql) = 3
    /\ ql.index[qres.key] = ql.rows[3]
    /\ qres.gone = {qres.key}

\* The record a step of goroutine t reads: the one GetClientByID returns, or
\* the one a pass of GetClients' loop appends to rs; Nil when the step reads
\* none.
ReadRec(t) ==
    IF Returns(t, "GetClientByID") THEN th'[t].c
    ELSE IF th[t].op = "GetClients" /\ Len(th'[t].rs) = Len(th[t].rs) + 1
         THEN th'[t].rs[Len(th'[t].rs)]
    ELSE Nil

C16_NoDataKeepsStats ==
    [][\A t \in DOMAIN th :
          /\ (ReadRec(t) # Nil /\ ~statsSrc[heap'[ReadRec(t)].ClientId].ok) =>
                /\ heap'[ReadRec(t)]
                      = heap[RecOf(clientList, heap'[ReadRec(t)].ClientId)]
                /\ th'[t].pc \in {"iter", "done"}
          /\ (Returns(t, "GetClientByID") /\ th[t].id \notin HistKeys(gc)) =>
                /\ th'[t].c = Nil
                /\ ~consultsSource(th'[t].c)
                /\ heap' = heap /\ clientList' = clientList
      ]_vars

C16_Witness ==
    \E t \in DOMAIN th :
        /\ th[t].op = "GetClientByID" /\ th[t].pc = "done" /\ th[t].c # Nil
        /\ ~statsSrc[th[t].id].ok
        /\ th[t].view[th[t].c].stats = 1

\* C17: a read leaves the stored client records as they were, stats block
\* included, so what a read returns for an identifier the statistics source
\* has no data for does not depend on earlier reads.
C17_ReadsLeaveRecordsUnchanged ==
    [][\A t \in DOMAIN th :
          ReadRec(t) # Nil =>
              LET id == heap'[ReadRec(t)].ClientId
              IN  /\ heap'[ReadRec(t)] = heap[RecOf(clientList, id)]
                  /\ ~statsSrc[id].ok => heap'[ReadRec(t)].stats = 0
      ]_vars

\* The goroutine t has a response of clientService.Get in hand.
GetAnswered(t) == th[t].pc = "done" /\ th[t].api = "Get"

\* C18: clientService.Get answers an empty client identifier with an
\* invalid-argument error without calling the store, and a non-empty
\* identifier that has no record with an error, never with a success
\* response that carries no client.
C18_GetNeverSucceedsWithoutClient ==
    \A t \in DOMAIN th :
        GetAnswered(t) =>
            /\ th[t].id = "" => th[t].err = "InvalidArgument" /\ th[t].op = "none"
            /\ th[t].c = Nil => th[t].err # "nil"

\* The goroutine t is inside the body of a call on the registry of `ops`.
Inside(t, ops) == th[t].pc \in {"cs", "iter"} /\ th[t].op \in ops

\* What the two mutexes guarantee in every state.
LockDiscipline ==
    /\ \A t \in DOMAIN th :
          /\ Inside(t, ClientOps) => clientMu = t
          /\ Inside(t, SubOps) => subMu = t
          /\ ~(clientMu = t /\ subMu = t)
          /\ th[t].pc \in {"idle", "lock", "done"} => clientMu # t /\ subMu # t
    /\ \A t, u \in DOMAIN th :
          /\ Inside(t, ClientOps) /\ Inside(u, ClientOps) => t = u
          /\ Inside(t, SubOps) /\ Inside(u, SubOps) => t = u

\* A registry is read or written only by the goroutine that holds its mutex.
AccessUnderLock ==
    [][/\ clientList' # clientList => clientMu # Nil /\ Inside(clientMu, ClientOps)
       /\ subscriptions' # subscriptions => subMu # Nil /\ Inside(subMu, SubOps)
       /\ \A t \in DOMAIN th :
             th[t].pc \in {"cs", "iter"} /\ th'[t] # th[t] =>
                 IF th[t].op \in ClientOps THEN clientMu = t ELSE subMu = t
      ]_vars

\* C19: under any interleaving of goroutines calling the store's methods,
\* a registry is accessed only under its own mutex, at most one goroutine is
\* inside a registry, no goroutine holds both mutexes, a call that has ended
\* holds no mutex, and under fair scheduling every call that was started
\* returns (so no deadlock is reachable).
C19_LocksAreExclusiveAndCallsReturn ==
    /\ []LockDiscipline
    /\ AccessUnderLock
    /\ \A t \in Threads : th[t].pc \in {"lock", "cs", "iter"} ~> th[t].pc = "done"

\* One goroutine is inside the client registry while the other waits for
\* clientMu, and later the one that waited is inside.
C19_Witness ==
    \E t, u \in DOMAIN th :
        /\ t # u
        /\ Inside(t, ClientOps) /\ clientMu = t
        /\ th[u].pc = "lock" /\ th[u].op \in ClientOps
        /\ ListLen(clientList) > 0

\* The keys of q.index that map to the element e.
KeysTo(q, e) == {k \in DOMAIN q.index : q.index[k] = e}

\* C20: after any sequence of set and remove calls the index and the rows of
\* a quickList correspond one to one: every key maps to an element linked in
\* rows, every linked element is the target of exactly one key, and there
\* are as many keys as rows.
C20_IndexMatchesRows ==
    /\ \A k \in DOMAIN ql.index : ql.index[k] # Nil /\ ql.index[k] \in Range(ql.rows)
    /\ \A j \in 1..Len(ql.rows) : Cardinality(KeysTo(ql, ql.rows[j])) = 1
    /\ \A j, l \in 1..Len(ql.rows) : ql.rows[j] = ql.rows[l] => j = l
    /\ Cardinality(DOMAIN ql.index) = ListLen(ql)
    /\ DOMAIN ql.Value = Range(ql.rows)

\* A remove has just taken a key out from between two others, after some
\* other key was removed and set again.
C20_Witness ==
    /\ qres.op = "remove" /\ qres.existed
    /\ ListLen(ql) = 2
    /\ qres.gone \cap DOMAIN ql.index # {}
    /\ qres.key \notin DOMAIN ql.index

====
